---- MODULE Spec2Model ----
(***************************************************************************)
(* A model of the INLL seat sniper: the availability checker               *)
(* (availability-check.py) and the notification watcher (action-watch.py). *)
(* Python strings are TLA+ strings; the character at position i of s is    *)
(* SubSeq(s, i, i).  Python lists are sequences, Optional values are       *)
(* sequences of length 0 or 1 (or index 0 for a missing column index).     *)
(***************************************************************************)
EXTENDS Integers, Sequences, FiniteSets, TLC

(***************************************************************************)
(* String helpers: the str methods the program uses.                       *)
(***************************************************************************)
UPPER == "ABCDEFGHIJKLMNOPQRSTUVWXYZ"
LOWER == "abcdefghijklmnopqrstuvwxyz"
DIGITS == "0123456789"

CharAt(s, i) == SubSeq(s, i, i)

Chars(s) == {CharAt(s, i) : i \in 1..Len(s)}
UpperSet == Chars(UPPER)
LowerSet == Chars(LOWER)
DigitSet == Chars(DIGITS)
SpaceSet == {" ", "\n", "\t"}

IsSpace(c) == c \in SpaceSet

\* the lowercase letter of every uppercase letter
LowerOf == [c \in UpperSet |->
              CharAt(LOWER, CHOOSE i \in 1..Len(UPPER) : CharAt(UPPER, i) = c)]

LowerChar(c) == IF c \in UpperSet THEN LowerOf[c] ELSE c

RECURSIVE LowerRange(_, _, _)
\* the lowercased characters a..b of s (halving keeps the recursion shallow)
LowerRange(s, a, b) ==
    IF a > b THEN ""
    ELSE IF a = b THEN LowerChar(CharAt(s, a))
    ELSE LowerRange(s, a, (a + b) \div 2) \o LowerRange(s, (a + b) \div 2 + 1, b)

\* str.lower()
Lower(s) == LowerRange(s, 1, Len(s))

\* k in t  (substring test)
Contains(t, k) ==
    \E i \in 1..(Len(t) - Len(k) + 1) : SubSeq(t, i, i + Len(k) - 1) = k

RECURSIVE JoinRange(_, _, _, _)
JoinRange(sep, parts, a, b) ==
    IF a > b THEN ""
    ELSE IF a = b THEN parts[a]
    ELSE JoinRange(sep, parts, a, (a + b) \div 2) \o sep
         \o JoinRange(sep, parts, (a + b) \div 2 + 1, b)

\* sep.join(parts)
Join(sep, parts) == JoinRange(sep, parts, 1, Len(parts))

\* what character i of s contributes to " ".join(s.split()): nothing for
\* whitespace, the character itself, preceded by one space when it starts
\* a word that is not the first
NormPiece(s, i) ==
    LET c == CharAt(s, i) IN
    IF IsSpace(c) THEN ""
    ELSE IF /\ i > 1 /\ IsSpace(CharAt(s, i - 1))
            /\ \E j \in 1..(i - 1) : ~IsSpace(CharAt(s, j))
         THEN " " \o c
         ELSE c

RECURSIVE NormRange(_, _, _)
NormRange(s, a, b) ==
    IF a > b THEN ""
    ELSE IF a = b THEN NormPiece(s, a)
    ELSE NormRange(s, a, (a + b) \div 2) \o NormRange(s, (a + b) \div 2 + 1, b)

\* " ".join(text.split())
normalize_space(text) == NormRange(text, 1, Len(text))

\* str.strip(): drop leading and trailing whitespace
Strip(s) ==
    IF \A i \in 1..Len(s) : IsSpace(CharAt(s, i)) THEN ""
    ELSE SubSeq(s,
                CHOOSE i \in 1..Len(s) :
                    ~IsSpace(CharAt(s, i))
                    /\ \A j \in 1..(i - 1) : IsSpace(CharAt(s, j)),
                CHOOSE i \in 1..Len(s) :
                    ~IsSpace(CharAt(s, i))
                    /\ \A j \in (i + 1)..Len(s) : IsSpace(CharAt(s, j)))

(***************************************************************************)
(* classify_availability: texts is the tuple of positional arguments       *)
(***************************************************************************)
Keywords == {"full", "sold out", "no places", "closed", "unavailable"}

classify_availability(texts) ==
    LET t == Lower(Join(" ", texts)) IN
    IF \E k \in Keywords : Contains(t, k) THEN "unavailable" ELSE "available"

(***************************************************************************)
(* The parsed document.  A page is a sequence of nodes in document order:  *)
(* a text node, or a table whose trs are its rows.  A tr has cells (td/th, *)
(* each one text node, link = TRUE when that text sits in an <a>/<button>) *)
(* and outer, the texts of links placed in the tr outside any cell.        *)
(***************************************************************************)
TextNode(s) == [kind |-> "text", text |-> s, trs |-> <<>>]
TableNode(trs) == [kind |-> "table", text |-> "", trs |-> trs]
Cell(s) == [text |-> s, link |-> FALSE]
LinkCell(s) == [text |-> s, link |-> TRUE]
Tr(cells, outer) == [cells |-> cells, outer |-> outer]

RECURSIVE Concat(_)
Concat(seqs) == IF seqs = <<>> THEN <<>> ELSE Head(seqs) \o Concat(Tail(seqs))

\* element.get_text(" ", strip=True) of a cell or link holding one text node
get_text(s) == Strip(s)

\* the (cells, action_text) pair extract_tables builds for one data row
extract_row(tr) ==
    LET islink(c) == c.link
        links == SelectSeq(tr.cells, islink)
    IN [cells |-> [i \in 1..Len(tr.cells) |->
                     normalize_space(get_text(tr.cells[i].text))],
        action_text |->
            Join(" ", [i \in 1..Len(links) |->
                         normalize_space(get_text(links[i].text))]
                      \o [i \in 1..Len(tr.outer) |->
                            normalize_space(get_text(tr.outer[i]))])]

\* one (headers, rows) pair
extract_table(node) ==
    [headers |-> IF node.trs = <<>> THEN <<>>
                 ELSE [i \in 1..Len(node.trs[1].cells) |->
                         normalize_space(get_text(node.trs[1].cells[i].text))],
     rows |-> IF node.trs = <<>> THEN <<>>
              ELSE [i \in 1..(Len(node.trs) - 1) |-> extract_row(node.trs[i + 1])]]

extract_tables(page) ==
    LET istable(n) == n.kind = "table"
        found == SelectSeq(page, istable)
    IN [i \in 1..Len(found) |-> extract_table(found[i])]

\* soup.get_text("\n", strip=True): every non-empty stripped text node
page_text(page) ==
    LET trtexts(tr) == [i \in 1..Len(tr.cells) |-> tr.cells[i].text] \o tr.outer
        nodetexts(n) == IF n.kind = "text" THEN <<n.text>>
                        ELSE Concat([i \in 1..Len(n.trs) |-> trtexts(n.trs[i])])
        texts == Concat([i \in 1..Len(page) |-> nodetexts(page[i])])
        nonempty(t) == t # ""
    IN Join("\n", SelectSeq([i \in 1..Len(texts) |-> Strip(texts[i])], nonempty))

(***************************************************************************)
(* pick_session_table                                                      *)
(***************************************************************************)
table_score(table) ==
    LET header_text == Join(" ", [i \in 1..Len(table.headers) |->
                                    Lower(table.headers[i])])
    IN
      (IF Contains(header_text, "location") THEN 2 ELSE 0)
    + (IF Contains(header_text, "schedule") THEN 2 ELSE 0)
    + (IF Contains(header_text, "start") /\ Contains(header_text, "date")
       THEN 2 ELSE 0)
    + (IF Contains(header_text, "reference") THEN 2 ELSE 0)
    + (IF Len(table.rows) >= 3 THEN 1 ELSE 0)

\* a variant that also replaces the best table on an equal score
better_score_or_equal(score, best_score) == score >= best_score

\* the comparison that replaces the best table so far
better_score(score, best_score) == score > best_score

RECURSIVE PickFrom(_, _, _, _)
PickFrom(tables, i, best, best_score) ==
    IF i > Len(tables) THEN best
    ELSE LET score == table_score(tables[i]) IN
         IF better_score(score, best_score)
         THEN PickFrom(tables, i + 1, <<tables[i]>>, score)
         ELSE PickFrom(tables, i + 1, best, best_score)

\* <<>> is None, <<t>> is the selected table
pick_session_table(tables) == PickFrom(tables, 1, <<>>, 0)

(***************************************************************************)
(* build_sessions_from_table                                               *)
(***************************************************************************)
Session(location, schedule, hours, days, start_date, end_date, fee, reference, availability, action_text) ==
    [location |-> location, schedule |-> schedule, hours |-> hours,
     days |-> days, start_date |-> start_date, end_date |-> end_date,
     fee |-> fee, reference |-> reference, availability |-> availability,
     action_text |-> action_text]

\* list.index(name): position of the first occurrence
IndexOf(seq, x) == CHOOSE i \in 1..Len(seq) :
                      seq[i] = x /\ \A j \in 1..(i - 1) : seq[j] # x

RECURSIVE IdxFrom(_, _, _)
IdxFrom(headers_l, names, n) ==
    IF n > Len(names) THEN 0
    ELSE IF \E i \in 1..Len(headers_l) : headers_l[i] = names[n]
         THEN IndexOf(headers_l, names[n])
         ELSE IdxFrom(headers_l, names, n + 1)

\* 0 is None
idx_of(headers_l, names) == IdxFrom(headers_l, names, 1)

safe_get(cells, idx) == IF idx = 0 \/ idx > Len(cells) THEN "" ELSE cells[idx]

\* a variant that classifies a row by its links only
row_availability_links_only(action_text, cells) ==
    classify_availability(<<action_text>>)

\* the availability of one table row
row_availability(action_text, cells) ==
    classify_availability(<<action_text, Join(" ", cells)>>)

build_sessions_from_table(headers, rows) ==
    LET headers_l == [i \in 1..Len(headers) |-> Lower(headers[i])]
        row_session(row) ==
            Session(safe_get(row.cells, idx_of(headers_l, <<"location">>)),
                    safe_get(row.cells, idx_of(headers_l, <<"schedule">>)),
                    safe_get(row.cells, idx_of(headers_l, <<"hours">>)),
                    safe_get(row.cells, idx_of(headers_l, <<"days">>)),
                    safe_get(row.cells,
                             idx_of(headers_l, <<"start date", "start date ">>)),
                    safe_get(row.cells,
                             idx_of(headers_l, <<"end date", "end date ">>)),
                    safe_get(row.cells, idx_of(headers_l, <<"fee">>)),
                    safe_get(row.cells, idx_of(headers_l, <<"reference">>)),
                    row_availability(row.action_text, row.cells),
                    row.action_text)
    IN [i \in 1..Len(rows) |-> row_session(rows[i])]

(***************************************************************************)
(* fallback_extract_sessions.  The pattern is a sequence of groups joined  *)
(* by \s+; a group is a sequence of atoms: one literal character, one      *)
(* character of a class, a greedy run x+ of a class, or the optional       *)
(* fraction (\.\d+)? of the fee.  Every run is followed by an atom that    *)
(* cannot start inside the run's class, so the greedy match is the only    *)
(* match the regex engine can find from a given start.                     *)
(***************************************************************************)
InClass(cls, c) ==
    CASE cls = "d" -> c \in DigitSet
      [] cls = "w" -> c \in DigitSet \/ c \in UpperSet \/ c \in LowerSet \/ c = "_"
      [] cls = "s" -> IsSpace(c)
      [] cls = "a" -> c \in UpperSet \/ c \in LowerSet \/ c = "-"

Lit(c) == [k |-> "lit", c |-> c]
One(cls) == [k |-> "one", c |-> cls]
Plus(cls) == [k |-> "plus", c |-> cls]
OptFrac == [k |-> "optfrac", c |-> ""]

RECURSIVE RunEnd(_, _, _)
\* the position after the longest run of cls characters starting at pos
RunEnd(text, pos, cls) ==
    IF pos <= Len(text) /\ InClass(cls, CharAt(text, pos))
    THEN RunEnd(text, pos + 1, cls) ELSE pos

\* the position after the atom matched at pos, 0 when it does not match
MatchAtom(text, pos, atom) ==
    CASE atom.k = "lit" ->
           IF pos <= Len(text) /\ CharAt(text, pos) = atom.c
           THEN pos + 1 ELSE 0
      [] atom.k = "one" ->
           IF pos <= Len(text) /\ InClass(atom.c, CharAt(text, pos))
           THEN pos + 1 ELSE 0
      [] atom.k = "plus" ->
           IF RunEnd(text, pos, atom.c) > pos
           THEN RunEnd(text, pos, atom.c) ELSE 0
      [] atom.k = "optfrac" ->
           IF /\ pos <= Len(text) /\ CharAt(text, pos) = "."
              /\ RunEnd(text, pos + 1, "d") > pos + 1
           THEN RunEnd(text, pos + 1, "d") ELSE pos

RECURSIVE MatchAtoms(_, _, _, _)
MatchAtoms(text, pos, atoms, i) ==
    IF i > Len(atoms) THEN pos
    ELSE LET e == MatchAtom(text, pos, atoms[i]) IN
         IF e = 0 THEN 0 ELSE MatchAtoms(text, e, atoms, i + 1)

D == One("d")
G_location == <<Lit("I"), Lit("N"), Lit("L"), Lit("L"), Plus("s"), Plus("w")>>
G_schedule == <<D, D, Lit(":"), D, D, Lit("-"), D, D, Lit(":"), D, D>>
G_days == <<Plus("a")>>
G_datetime == <<D, D, D, D, Lit("-"), D, D, Lit("-"), D, D, Plus("s"),
                D, D, Lit(":"), D, D, Lit(":"), D, D>>
G_fee == <<Plus("d"), OptFrac>>
G_reference == <<Lit("F"), Lit("R"), D, D, D, D, Lit("-"), Plus("d")>>

\* location, schedule, days, start, end, fee, reference
pattern == <<G_location, G_schedule, G_days, G_datetime, G_datetime,
             G_fee, G_reference>>

RECURSIVE MatchGroups(_, _, _, _)
\* the <<first, past-the-end>> span of every group, <<>> when no match at pos
MatchGroups(text, pos, g, spans) ==
    LET e == MatchAtoms(text, pos, pattern[g], 1) IN
    IF e = 0 THEN <<>>
    ELSE IF g = Len(pattern) THEN Append(spans, <<pos, e>>)
    ELSE LET w == MatchAtom(text, e, Plus("s")) IN
         IF w = 0 THEN <<>>
         ELSE MatchGroups(text, w, g + 1, Append(spans, <<pos, e>>))

MatchAt(text, pos) == MatchGroups(text, pos, 1, <<>>)

group(text, m, g) == SubSeq(text, m[g][1], m[g][2] - 1)

\* a variant that classifies a match by the text of the page
fallback_session_in_context(text, m) ==
    Session(group(text, m, 1), group(text, m, 2), "", group(text, m, 3),
            group(text, m, 4), group(text, m, 5), group(text, m, 6),
            group(text, m, 7), classify_availability(<<text>>), "")

\* the Session built for one match
fallback_session(text, m) ==
    LET action_text == "" IN
    Session(group(text, m, 1), group(text, m, 2), "", group(text, m, 3),
            group(text, m, 4), group(text, m, 5), group(text, m, 6),
            group(text, m, 7), classify_availability(<<action_text>>),
            action_text)

RECURSIVE FindIter(_, _, _)
\* pattern.finditer(text): non-overlapping matches, left to right; each
\* search resumes where the previous match ended
FindIter(text, pos, sessions) ==
    LET starts == {p \in pos..Len(text) : MatchAt(text, p) # <<>>} IN
    IF starts = {} THEN sessions
    ELSE LET first == CHOOSE p \in starts : \A q \in starts : p <= q
             m == MatchAt(text, first)
         IN FindIter(text, m[Len(pattern)][2],
                     Append(sessions, fallback_session(text, m)))

fallback_extract_sessions(text) == FindIter(text, 1, <<>>)

(***************************************************************************)
(* check_once, after a successful fetch of page                            *)
(***************************************************************************)
DEFAULT_REFERENCES == {"FR0074-7681", "FR0074-7682"}

filter_references(sessions, wanted) ==
    SelectSeq(sessions, LAMBDA s : s.reference \in wanted)

\* the sessions of the table path, before the fallback test
table_sessions(selected) ==
    IF selected # <<>>
    THEN build_sessions_from_table(selected[1].headers, selected[1].rows)
    ELSE <<>>

\* a variant that falls back when no session of the table is a wanted one
needs_fallback_when_none_wanted(sessions) ==
    filter_references(sessions, DEFAULT_REFERENCES) = <<>>

\* "if not sessions": whether the fallback extractor runs
needs_fallback(sessions) == sessions = <<>>

\* the references check_once keeps
check_once_wanted == DEFAULT_REFERENCES

\* one run of check_once on a fetched page: its locals and its return value
check_once(page) ==
    LET tables == extract_tables(page)
        selected == pick_session_table(tables)
        from_table == table_sessions(selected)
        fallback == needs_fallback(from_table)
        sessions == IF fallback THEN fallback_extract_sessions(page_text(page))
                    ELSE from_table
    IN [page |-> page, tables |-> tables, selected |-> selected,
        from_table |-> from_table, fallback |-> fallback,
        sessions |-> sessions,
        returned |-> filter_references(sessions, check_once_wanted)]

(***************************************************************************)
(* The documents the fetch can return: an optional leading text node and   *)
(* at most MaxTables tables, each a header row and at most MaxRows rows.   *)
(***************************************************************************)
MaxTables == 2
MaxRows == 3

SeqsUpTo(S, n) == UNION {[1..k -> S] : k \in 0..n}

H_full == Tr(<<Cell("Location"), Cell("Schedule"), Cell("Days"),
               Cell("Start  Date"), Cell(" End Date"), Cell("Fee"),
               Cell("Reference"), Cell("")>>, <<>>)
H_part == Tr(<<Cell("LOCATION"), Cell("Start"), Cell("Date")>>, <<>>)
H_other == Tr(<<Cell("Lieu"), Cell("Horaire"), Cell("Jours"), Cell("Start"),
                Cell("Fin"), Cell("Prix"), Cell("Ref")>>, <<>>)
HeaderRows == <<H_full, H_part, H_other>>

DataCells(location, schedule, reference) ==
    <<Cell(location), Cell(schedule), Cell("Mon-Fri"),
      Cell("2024-09-01 00:00:00"), Cell("2024-12-01 00:00:00"),
      Cell("450"), Cell(reference)>>

R_book == Tr(DataCells("INLL Belval", "18:00-20:00", "FR0074-7681")
             \o <<LinkCell("Book")>>, <<>>)
R_full == Tr(DataCells("INLL Mersch", "08:00-09:30", "FR0074-7682")
             \o <<LinkCell("Full")>>, <<>>)
R_other == Tr(DataCells("INLL Belval", "12:00-13:30", "FR0074-9999")
              \o <<LinkCell(" Book  now ")>>, <<>>)
R_soldout == Tr(DataCells("INLL Belval", "18:00-20:00", "FR0074-7681"),
                <<"Sold", "OUT">>)
R_short == Tr(<<Cell("INLL Belval"), Cell("Closed")>>, <<>>)
DataRows == <<R_book, R_soldout, R_other, R_full, R_short>>

\* the table with header row h and n data rows, taken in rotation
TableOf(h, n) ==
    TableNode(<<HeaderRows[h]>>
              \o [i \in 1..n |-> DataRows[((2 * (h - 1) + i - 1) % Len(DataRows)) + 1]])

\* <<header row, number of data rows>> of the tables a page can hold
TableShapes == {<<1, MaxRows>>, <<2, 0>>, <<2, 2>>, <<3, 2>>, <<3, MaxRows>>}

TableNodes == {TableOf(hn[1], hn[2]) : hn \in TableShapes} \cup {TableNode(<<>>)}

T_match == "List full. INLL Belval 18:00-20:00 Mon-Fri 2024-09-01 00:00:00 2024-12-01 00:00:00 450 FR0074-7681 Full xINLL  Mersch 08:00-09:30 Sat 2025-01-10 00:00:00\n2025-03-10 00:00:00 99.50 FR0074-99990."
LeadingText == {<<>>, <<TextNode(T_match)>>}

Pages == {t \o ts : t \in LeadingText, ts \in SeqsUpTo(TableNodes, MaxTables)}

\* the runs of check_once over the documents a fetch can return
Checks == {check_once(p) : p \in Pages}

(***************************************************************************)
(* Command lines.  An absent option is <<>>, a given one is <<value>>.     *)
(***************************************************************************)
DEFAULT_INTERVAL == 60
Intervals == {-5, 0, 9, 10, 11, DEFAULT_INTERVAL}
ReferenceArgs == {<<>>, <<"">>, <<",">>, <<"FR0074-9999">>,
                  <<" FR0074-9999 ,FR0074-7681,">>}

CheckerArgs ==
    {[watch |-> FALSE, interval |-> DEFAULT_INTERVAL, references |-> r] :
        r \in ReferenceArgs}
    \cup {[watch |-> TRUE, interval |-> i, references |-> <<>>] : i \in Intervals}
    \cup {[watch |-> TRUE, interval |-> DEFAULT_INTERVAL,
           references |-> <<"FR0074-9999">>]}

WatcherArgs == [once : BOOLEAN, interval : Intervals]

MaxCycles == 2

\* {r.strip() for r in references.split(",") if r.strip()}
parse_references(str) ==
    LET n == Len(str)
        seps == {0, n + 1} \cup {i \in 1..n : CharAt(str, i) = ","}
        pieces == {SubSeq(str, a + 1, b - 1) :
                     <<a, b>> \in {ab \in seps \X seps :
                                     /\ ab[1] < ab[2]
                                     /\ \A k \in seps : ~(ab[1] < k /\ k < ab[2])}}
    IN {Strip(piece) : piece \in pieces} \ {""}

\* "if args.references:" and the filter of main
main_filter(sessions, references) ==
    IF references # <<>> /\ references[1] # ""
    THEN filter_references(sessions, parse_references(references[1]))
    ELSE sessions

\* a variant that sleeps the interval as given
sleep_seconds_unclamped(interval) == interval

\* time.sleep(max(10, args.interval))
sleep_seconds(interval) == IF interval > 10 THEN interval ELSE 10

(***************************************************************************)
(* State.  A run is one process: the checker (availability-check.py) or    *)
(* the watcher (action-watch.py); the other one stays "idle".              *)
(***************************************************************************)
VARIABLES
    c_args,      \* checker: parsed command line
    c_pc,        \* checker: "check", "sleep", "exit", "crashed" or "idle"
    c_check,     \* checker: the run of check_once in the current cycle
    c_out,       \* checker: the sessions handed to output_sessions
    c_cycles,    \* checker: cycles started
    c_sleeps,    \* checker: sleeps done
    c_slept,     \* checker: seconds of the last sleep
    w_args,      \* watcher: parsed command line
    w_pc,        \* watcher: "cycle", "sleep", "exit", "crashed" or "idle"
    w_obtained,  \* watcher: <<list>> returned by run_check in the last cycle
    w_posts,     \* watcher: bodies POSTed in the last cycle
    w_log,       \* watcher: warnings printed in the last cycle
    w_posted,    \* watcher: POSTs attempted since the start
    w_cycles,    \* watcher: cycles started
    w_sleeps,    \* watcher: sleeps done
    w_slept      \* watcher: seconds of the last sleep

c_vars == <<c_args, c_pc, c_check, c_out, c_cycles, c_sleeps, c_slept>>
w_vars == <<w_args, w_pc, w_obtained, w_posts, w_log, w_posted, w_cycles,
            w_sleeps, w_slept>>
vars == <<c_vars, w_vars>>

NoArgs == [none |-> TRUE]

CheckerStart(pc, args) ==
    /\ c_args = args
    /\ c_pc = pc
    /\ c_check = <<>>
    /\ c_out = <<>>
    /\ c_cycles = 0
    /\ c_sleeps = 0
    /\ c_slept = 0

WatcherStart(pc, args) ==
    /\ w_args = args
    /\ w_pc = pc
    /\ w_obtained = <<>>
    /\ w_posts = <<>>
    /\ w_log = <<>>
    /\ w_posted = 0
    /\ w_cycles = 0
    /\ w_sleeps = 0
    /\ w_slept = 0

CheckerInit ==
    /\ \E args \in CheckerArgs : CheckerStart("check", args)
    /\ WatcherStart("idle", NoArgs)

WatcherInit ==
    /\ \E args \in WatcherArgs : WatcherStart("cycle", args)
    /\ CheckerStart("idle", NoArgs)

Init == CheckerInit \/ WatcherInit

(***************************************************************************)
(* The checker's main: one cycle is check_once, the --references filter    *)
(* and output_sessions; in --watch mode a sleep follows every cycle.       *)
(***************************************************************************)
\* where main goes after a cycle that raised nothing
checker_after_cycle(watch) == IF watch THEN "sleep" ELSE "exit"

\* where main goes when fetch_html raises: nothing catches it
checker_after_fetch_error(watch) == "crashed"

\* fetch_html returned a document
CheckerCycle ==
    /\ c_pc = "check"
    /\ c_cycles < MaxCycles
    /\ \E run \in Checks :
          /\ c_check' = <<run>>
          /\ c_out' = <<main_filter(run.returned, c_args.references)>>
    /\ c_cycles' = c_cycles + 1
    /\ c_pc' = checker_after_cycle(c_args.watch)
    /\ UNCHANGED <<c_args, c_sleeps, c_slept, w_vars>>

\* requests.get or raise_for_status raised
CheckerFetchError ==
    /\ c_pc = "check"
    /\ c_cycles < MaxCycles
    /\ c_check' = <<>>
    /\ c_out' = <<>>
    /\ c_cycles' = c_cycles + 1
    /\ c_pc' = checker_after_fetch_error(c_args.watch)
    /\ UNCHANGED <<c_args, c_sleeps, c_slept, w_vars>>

\* time.sleep returns and the loop starts over; the frame of check_once is
\* gone, the sessions local of main stays until the next cycle assigns it
CheckerSleep ==
    /\ c_pc = "sleep"
    /\ c_slept' = sleep_seconds(c_args.interval)
    /\ c_sleeps' = c_sleeps + 1
    /\ c_check' = <<>>
    /\ c_pc' = "check"
    /\ UNCHANGED <<c_args, c_out, c_cycles, w_vars>>

(***************************************************************************)
(* The watcher's main: one cycle is the try block (run_check, the filter   *)
(* on "available", handle_available), then "if args.once: return".         *)
(***************************************************************************)
\* a variant that keeps every session
available_of_unfiltered(sessions) == sessions

\* [s for s in sessions if s.get("availability") == "available"]
available_of(sessions) ==
    SelectSeq(sessions, LAMBDA s : s.availability = "available")

\* the body handle_available sends
notification_body(sessions) ==
    Join("\n", <<"Available sessions detected:">>
               \o [i \in 1..Len(sessions) |->
                     sessions[i].reference \o " | " \o sessions[i].availability])

\* "if available:" -- the lists the watcher notifies about
should_notify(available) == available # <<>>

\* the bodies POSTed for the list run_check returned
posts_for(sessions) ==
    IF should_notify(available_of(sessions))
    THEN <<notification_body(available_of(sessions))>>
    ELSE <<>>

\* run_check: what the except clauses return for a failed or garbled check
run_check_failed == <<>>

\* the warnings of errors that run_check and handle_available catch themselves
CaughtInside == {"check failed", "invalid JSON from checker", "ntfy send failed"}

\* a variant whose except clause names requests.RequestException only
cycle_catches_request_errors(error) == error = "ntfy send failed"

\* "except Exception" around the cycle: TRUE when the error is swallowed
cycle_catches(error) == TRUE

\* a variant that ignores --once
watcher_after_cycle_ignoring_once(once) == "sleep"

\* "if args.once: return", else on to time.sleep
watcher_after_cycle(once) == IF once THEN "exit" ELSE "sleep"

PostOutcomes == {"delivered", "ntfy send failed", "unexpected error"}

WatcherEndCycle(obtained, posts, log) ==
    /\ w_obtained' = obtained
    /\ w_posts' = posts
    /\ w_log' = log
    /\ w_posted' = w_posted + Len(posts)
    /\ w_cycles' = w_cycles + 1
    /\ w_pc' = IF \E i \in 1..Len(log) :
                        log[i] \notin CaughtInside /\ ~cycle_catches(log[i])
               THEN "crashed" ELSE watcher_after_cycle(w_args.once)
    /\ UNCHANGED <<w_args, w_sleeps, w_slept, c_vars>>

\* what json.loads gives for the stdout of "availability-check.py --format
\* json": the list check_once returned, its Sessions as objects of strings
CheckerOutputs == {run.returned : run \in Checks}

\* the checker subprocess printed the JSON array of its sessions
WatcherCycleChecked ==
    /\ w_pc = "cycle"
    /\ w_cycles < MaxCycles
    /\ \E sessions \in CheckerOutputs, outcome \in PostOutcomes :
          LET posts == posts_for(sessions) IN
          WatcherEndCycle(<<sessions>>, posts,
                          IF posts # <<>> /\ outcome # "delivered"
                          THEN <<outcome>> ELSE <<>>)

\* subprocess.run raised SubprocessError or OSError (the checker crashed)
WatcherCheckFailed ==
    /\ w_pc = "cycle"
    /\ w_cycles < MaxCycles
    /\ WatcherEndCycle(<<run_check_failed>>, posts_for(run_check_failed),
                       <<"check failed">>)

\* json.loads raised JSONDecodeError
WatcherInvalidJson ==
    /\ w_pc = "cycle"
    /\ w_cycles < MaxCycles
    /\ WatcherEndCycle(<<run_check_failed>>, posts_for(run_check_failed),
                       <<"invalid JSON from checker">>)

\* any other exception before the POST (stdout is JSON but no list of objects)
WatcherUnexpected ==
    /\ w_pc = "cycle"
    /\ w_cycles < MaxCycles
    /\ WatcherEndCycle(<<>>, <<>>, <<"unexpected error">>)

\* time.sleep returns and the loop starts over
WatcherSleep ==
    /\ w_pc = "sleep"
    /\ w_slept' = sleep_seconds(w_args.interval)
    /\ w_sleeps' = w_sleeps + 1
    /\ w_pc' = "cycle"
    /\ UNCHANGED <<w_args, w_obtained, w_posts, w_log, w_posted, w_cycles,
                   c_vars>>

Next ==
    \/ CheckerCycle
    \/ CheckerFetchError
    \/ CheckerSleep
    \/ WatcherCycleChecked
    \/ WatcherCheckFailed
    \/ WatcherInvalidJson
    \/ WatcherUnexpected
    \/ WatcherSleep

Spec == Init /\ [][Next]_vars

(***************************************************************************)
(* Properties.                                                             *)
(***************************************************************************)
\* the run of check_once a checker state shows
Run == c_check[1]

CheckerChecked == c_pc # "idle" /\ c_check # <<>>

WatcherRan == w_pc \in {"sleep", "exit", "crashed"}

\* the score the table selector is said to give a table
SaidScore(table) ==
    LET header_text == Lower(Join(" ", table.headers)) IN
      2 * Cardinality({k \in {"location", "schedule", "reference"} :
                         Contains(header_text, k)})
    + (IF \A k \in {"start", "date"} : Contains(header_text, k) THEN 2 ELSE 0)
    + (IF Len(table.rows) < 3 THEN 0 ELSE 1)

\* C1: pick_session_table returns the first table, in document order, of
\* the highest score (2 per header keyword found, 1 for three rows or
\* more), and returns none exactly when every table scores 0.
C1_PicksFirstHighest ==
    CheckerChecked =>
        LET tables == Run.tables
            n == Len(tables)
        IN IF \A i \in 1..n : SaidScore(tables[i]) = 0
           THEN Run.selected = <<>>
           ELSE \E i \in 1..n :
                   /\ Run.selected = <<tables[i]>>
                   /\ \A j \in 1..n : SaidScore(tables[j]) <= SaidScore(tables[i])
                   /\ \A j \in 1..(i - 1) :
                         SaidScore(tables[j]) < SaidScore(tables[i])

\* two different tables tie on the highest score and the first is selected
C1_Witness ==
    /\ CheckerChecked
    /\ Len(Run.tables) = 2
    /\ Run.tables[1] # Run.tables[2]
    /\ SaidScore(Run.tables[1]) = SaidScore(Run.tables[2])
    /\ SaidScore(Run.tables[1]) > 0
    /\ Run.selected = <<Run.tables[1]>>

\* C2: with a non-empty --references list W, the sessions output are
\* exactly the extracted sessions whose reference is in W, in their order,
\* also those whose reference is not a default one.
C2_ReferencesOverrideDefault ==
    (/\ CheckerChecked
     /\ c_args.references # <<>>
     /\ parse_references(c_args.references[1]) # {})
    => c_out = <<SelectSeq(Run.sessions,
                    LAMBDA ses : ses.reference
                                   \in parse_references(c_args.references[1]))>>

\* the entries of the list run_check returned, <<>> when it returned none
Obtained == IF w_obtained = <<>> THEN <<>> ELSE w_obtained[1]

CountOf(str, c) == Cardinality({i \in 1..Len(str) : CharAt(str, i) = c})

\* C3: in a watcher cycle a POST is attempted if and only if the list from
\* the checker has an entry with availability "available"; there is at
\* most one POST, and its body has one line per available entry and none
\* for an unavailable one.
C3_NotifiesIffAvailable ==
    (w_pc # "idle" /\ w_cycles > 0) =>
        LET avail == {i \in 1..Len(Obtained) :
                        Obtained[i].availability = "available"}
        IN /\ Len(w_posts) <= 1
           /\ (w_posts # <<>>) <=> (avail # {})
           /\ w_posts # <<>> =>
                 /\ CountOf(w_posts[1], "\n") = Cardinality(avail)
                 /\ ~Contains(w_posts[1], "unavailable")
                 /\ \A i \in avail :
                       Contains(w_posts[1],
                                "\n" \o Obtained[i].reference \o " | available")

\* the checker returned an available and an unavailable entry; one POST
C3_Witness ==
    /\ WatcherRan
    /\ \E i \in 1..Len(Obtained) : Obtained[i].availability = "available"
    /\ \E i \in 1..Len(Obtained) : Obtained[i].availability = "unavailable"
    /\ Len(w_posts) = 1

\* C4: without --once, no failure inside a cycle ends the watcher: after a
\* failed check or invalid JSON the cycle is one with no sessions and no
\* POST, after any failure the watcher goes to sleep, and after the sleep
\* it starts the next cycle.
C4_LoopSurvivesFailures ==
    [][(w_pc # "idle" /\ ~w_args.once) =>
          /\ (w_pc = "cycle" /\ w_pc' # "cycle") =>
                /\ w_pc' = "sleep"
                /\ (\E i \in 1..Len(w_log') :
                       w_log'[i] \in {"check failed", "invalid JSON from checker"})
                   => (w_obtained' = <<<<>>>> /\ w_posts' = <<>>)
          /\ (w_pc = "sleep" /\ w_pc' # "sleep") => w_pc' = "cycle"]_vars

\* a cycle failed with an unexpected error and the next cycle is starting
C4_Witness ==
    /\ w_pc = "cycle"
    /\ ~w_args.once
    /\ w_cycles >= 1
    /\ w_sleeps = w_cycles
    /\ w_log = <<"unexpected error">>

\* C5: in --watch mode a failed fetch does not end the checker's loop.
C5_WatchSurvivesFetchError ==
    (c_pc # "idle" /\ c_args.watch) => c_pc # "crashed"

\* C6: in both loops every sleep lasts max(10, interval) seconds, never
\* less than 10, and exactly one sleep separates consecutive cycles.
C6_SleepsClampedInterval ==
    /\ c_pc # "idle" =>
          /\ c_sleeps > 0 =>
                /\ c_slept >= 10
                /\ c_slept >= c_args.interval
                /\ c_slept \in {10, c_args.interval}
          /\ c_sleeps = IF c_pc = "check" THEN c_cycles ELSE c_cycles - 1
    /\ w_pc # "idle" =>
          /\ w_sleeps > 0 =>
                /\ w_slept >= 10
                /\ w_slept >= w_args.interval
                /\ w_slept \in {10, w_args.interval}
          /\ w_sleeps = IF w_pc = "cycle" THEN w_cycles ELSE w_cycles - 1

\* the checker, given a negative interval, slept 10 s between two cycles
C6_Witness ==
    /\ c_pc # "idle"
    /\ c_args.interval < 0
    /\ c_cycles = 2
    /\ c_sleeps = 1
    /\ c_slept = 10

\* C7: with --once the watcher runs one cycle, POSTs at most once, never
\* sleeps and then exits, whatever the cycle's outcome.
C7_OnceRunsOneCycle ==
    (w_pc # "idle" /\ w_args.once) =>
        /\ w_sleeps = 0
        /\ w_posted <= 1
        /\ w_pc = IF w_cycles = 0 THEN "cycle" ELSE "exit"
        /\ w_cycles <= 1

\* a --once watcher has exited after a cycle that hit an unexpected error
C7_Witness ==
    /\ w_pc = "exit"
    /\ w_args.once
    /\ w_log = <<"unexpected error">>

\* C8: check_once runs the fallback extractor if and only if the table
\* path gave no session (no table selected, or a selected table without
\* data rows); when the table gave a session, the result is the table's
\* sessions with a wanted reference, even if there is none.
C8_FallbackIffNoTableSession ==
    CheckerChecked =>
        LET no_table_session ==
                \/ Run.selected = <<>>
                \/ Run.selected[1].rows = <<>>
            from_rows == Len(Run.from_table)
        IN /\ Run.fallback <=> no_table_session
           /\ ~no_table_session =>
                 /\ from_rows = Len(Run.selected[1].rows)
                 /\ Run.sessions = Run.from_table
                 /\ \A i \in 1..Len(Run.returned) :
                       \E j \in 1..from_rows : Run.returned[i] = Run.from_table[j]
                 /\ \A j \in 1..from_rows :
                       (Run.from_table[j].reference \in {"FR0074-7681", "FR0074-7682"})
                       <=> \E i \in 1..Len(Run.returned) :
                              Run.returned[i] = Run.from_table[j]

\* the selected table has rows, none with a wanted reference, while the
\* page text holds a match of the fallback pattern
C8_Witness ==
    /\ CheckerChecked
    /\ Run.selected # <<>>
    /\ Run.from_table # <<>>
    /\ Run.returned = <<>>
    /\ ~Run.fallback
    /\ fallback_extract_sessions(page_text(Run.page)) # <<>>

\* C9: every session of the fallback extractor has empty hours, empty
\* action_text and availability "available", whatever the page says.
C9_FallbackAlwaysAvailable ==
    (CheckerChecked /\ Run.fallback) =>
        \A i \in 1..Len(Run.sessions) :
            /\ Run.sessions[i].hours = ""
            /\ Run.sessions[i].action_text = ""
            /\ Run.sessions[i].availability = "available"

\* the fallback found sessions on a page whose text says "full"
C9_Witness ==
    /\ CheckerChecked
    /\ Run.fallback
    /\ Run.sessions # <<>>
    /\ Contains(Lower(page_text(Run.page)), "full")

\* whether a row's link text and cell texts hold a keyword, in any case
SaidUnavailable(row) ==
    \E k \in {"full", "sold out", "no places", "closed", "unavailable"} :
        Contains(Lower(row.action_text \o " " \o Join(" ", row.cells)), k)

\* C10: a table row's session is "unavailable" if and only if a keyword
\* occurs, in any case, in the row's action text joined with its cell
\* texts, and "available" otherwise; no session has another availability.
C10_RowAvailabilityByKeyword ==
    CheckerChecked =>
        /\ ~Run.fallback =>
              \A i \in 1..Len(Run.sessions) :
                  Run.sessions[i].availability =
                      IF SaidUnavailable(Run.selected[1].rows[i])
                      THEN "unavailable" ELSE "available"
        /\ \A i \in 1..Len(Run.sessions) :
              Run.sessions[i].availability \in {"available", "unavailable"}

\* a table gave a row that is unavailable by a cell text alone, a row that
\* is unavailable by its link alone and a row that is available
C10_Witness ==
    /\ CheckerChecked
    /\ ~Run.fallback
    /\ \E i \in 1..Len(Run.sessions) :
          /\ Run.sessions[i].availability = "unavailable"
          /\ Run.sessions[i].action_text = ""
    /\ \E i \in 1..Len(Run.sessions) :
          /\ Run.sessions[i].availability = "unavailable"
          /\ Run.sessions[i].action_text = "Sold OUT"
    /\ \E i \in 1..Len(Run.sessions) :
          /\ Run.sessions[i].availability = "available"
          /\ Run.sessions[i].action_text = "Book"

====
